---- MODULE Spec2Model ----
(***************************************************************************)
(* Weather-Bot (src/main.py): the command handlers, the button handler,    *)
(* the three provider clients and the view builders, as a state machine.   *)
(*                                                                         *)
(* One update is handled at a time: a handler action takes the dispatcher  *)
(* from "idle" to "done" and records everything the handler did (the       *)
(* messages it sent or edited, the provider calls it made, whether         *)
(* call.answer was reached, whether an exception left the handler); Poll   *)
(* takes the next update.  Provider responses are inputs of the actions.   *)
(*                                                                         *)
(* Text is a sequence of one-character strings.  The Cyrillic city names   *)
(* are transliterated letter for letter (one Latin character per Cyrillic  *)
(* letter, the soft sign written as an apostrophe), so that lengths,       *)
(* substrings and letter case are those of the source.                     *)
(* Numbers read by float() are exact fractions [n, d] with d a power of    *)
(* ten; binary rounding of Python floats is not modelled.                  *)
(***************************************************************************)
EXTENDS Integers, Sequences, FiniteSets, TLC

\* ------------------------------------------------------------------ bounds

\* longest amount token of a /currency message
MaxAmountLen == 4
\* longest text put before or after a city name in a /city query
MaxAffixLen == 1
\* longest upstream forecast list, and the number of calendar dates in it
MaxSamples == 4
NumDates == 4
\* the number of chats whose handlers run interleaved
NumChats == 2

\* ------------------------------------------------------------------ text

Pairs ==
  << <<"A","a">>, <<"B","b">>, <<"C","c">>, <<"D","d">>, <<"E","e">>,
     <<"G","g">>, <<"H","h">>, <<"I","i">>, <<"J","j">>, <<"K","k">>,
     <<"L","l">>, <<"M","m">>, <<"N","n">>, <<"O","o">>, <<"R","r">>,
     <<"S","s">>, <<"T","t">>, <<"U","u">>, <<"V","v">>, <<"Y","y">>,
     <<"Z","z">> >>

\* str.lower() and str.upper() of one character
LowerChar(c) ==
  IF \E i \in DOMAIN Pairs : Pairs[i][1] = c
    THEN Pairs[CHOOSE i \in DOMAIN Pairs : Pairs[i][1] = c][2]
    ELSE c

UpperChar(c) ==
  IF \E i \in DOMAIN Pairs : Pairs[i][2] = c
    THEN Pairs[CHOOSE i \in DOMAIN Pairs : Pairs[i][2] = c][1]
    ELSE c

Lower(s) == [i \in 1..Len(s) |-> LowerChar(s[i])]
Upper(s) == [i \in 1..Len(s) |-> UpperChar(s[i])]

\* Python's  q in s  for strings
Contains(s, q) ==
  \E i \in 0..(Len(s) - Len(q)) : SubSeq(s, i + 1, i + Len(q)) = q

\* s.replace(",", ".")
ReplaceComma(s) == [i \in 1..Len(s) |-> IF s[i] = "," THEN "." ELSE s[i]]

\* the index of the first character of s at or after i that is (not) a blank
RECURSIVE SkipBlanks(_, _)
SkipBlanks(s, i) ==
  IF i <= Len(s) /\ s[i] = " " THEN SkipBlanks(s, i + 1) ELSE i

RECURSIVE SkipWord(_, _)
SkipWord(s, i) ==
  IF i <= Len(s) /\ s[i] # " " THEN SkipWord(s, i + 1) ELSE i

\* str.split(): the blank-separated words of s
RECURSIVE SplitFrom(_, _)
SplitFrom(s, i) ==
  LET b == SkipBlanks(s, i)
      e == SkipWord(s, b)
  IN IF b > Len(s) THEN <<>>
     ELSE <<SubSeq(s, b, e - 1)>> \o SplitFrom(s, e)

Split(s) == SplitFrom(s, 1)

\* str.split(maxsplit=1): the first word, then the rest of the text after the
\* blanks that follow it (trailing blanks kept), when there is any
Split1(s) ==
  LET b == SkipBlanks(s, 1)
      e == SkipWord(s, b)
      r == SkipBlanks(s, e)
  IN IF b > Len(s) THEN <<>>
     ELSE IF r > Len(s) THEN <<SubSeq(s, b, e - 1)>>
     ELSE <<SubSeq(s, b, e - 1), SubSeq(s, r, Len(s))>>

\* str.startswith
StartsWith(s, p) == Len(s) >= Len(p) /\ SubSeq(s, 1, Len(p)) = p

\* ------------------------------------------------------------------ numbers

Digits == <<"0","1","2","3","4","5","6","7","8","9">>
IsDigit(c) == \E i \in DOMAIN Digits : Digits[i] = c
DigitVal(c) == (CHOOSE i \in DOMAIN Digits : Digits[i] = c) - 1

RECURSIVE Pow10(_)
Pow10(k) == IF k = 0 THEN 1 ELSE 10 * Pow10(k - 1)

RECURSIVE DigitsVal(_)
DigitsVal(s) ==
  IF s = <<>> THEN 0 ELSE 10 * DigitsVal(SubSeq(s, 1, Len(s) - 1)) + DigitVal(s[Len(s)])

AllDigits(s) == \A i \in DOMAIN s : IsDigit(s[i])

\* a fraction n/d, d > 0
Frac(n, d) == [n |-> n, d |-> d]
One == Frac(1, 1)
FracMul(a, b) == Frac(a.n * b.n, a.d * b.d)
\* a / b; the caller has checked b.n # 0 (Python raises ZeroDivisionError)
FracDiv(a, b) ==
  IF b.n > 0 THEN Frac(a.n * b.d, a.d * b.n) ELSE Frac((0 - a.n) * b.d, a.d * (0 - b.n))
FracGe(a, k) == a.n >= k * a.d

\* float(s) for the decimal notations  [+-] digits [. [digits]]  and
\* [+-] . digits : ok = FALSE stands for ValueError
ParseFloat(s) ==
  LET signed == s # <<>> /\ s[1] \in {"+", "-"}
      body == IF signed THEN SubSeq(s, 2, Len(s)) ELSE s
      dots == {i \in DOMAIN body : body[i] = "."}
      dot == IF dots = {} THEN Len(body) + 1 ELSE CHOOSE i \in dots : TRUE
      ip == SubSeq(body, 1, dot - 1)
      fp == SubSeq(body, dot + 1, Len(body))
      wellFormed == /\ Cardinality(dots) <= 1
                    /\ AllDigits(ip) /\ AllDigits(fp)
                    /\ Len(ip) + Len(fp) > 0
      mag == DigitsVal(ip) * Pow10(Len(fp)) + DigitsVal(fp)
  IN IF ~wellFormed THEN [ok |-> FALSE, val |-> Frac(0, 1)]
     ELSE [ok |-> TRUE,
           val |-> Frac(IF signed /\ s[1] = "-" THEN 0 - mag ELSE mag, Pow10(Len(fp)))]

\* format(x, ".kf"): x rounded to k decimals (ties to even), as the integer
\* number of 10^-k units.  Python rounds the binary float, so at an exact
\* decimal tie its last digit can differ by one from this one.
Fmt(x, k) ==
  LET neg == x.n < 0
      m == IF neg THEN 0 - x.n ELSE x.n
      q == m \div x.d
      r == m % x.d
      scaled == r * Pow10(k)
      f == scaled \div x.d
      rest == scaled % x.d
      up == \/ 2 * rest > x.d
            \/ 2 * rest = x.d /\ ((q * Pow10(k) + f) % 2 = 1)
      mag == q * Pow10(k) + f + (IF up THEN 1 ELSE 0)
  IN IF neg THEN 0 - mag ELSE mag

\* ------------------------------------------------------------------ state

VARIABLES
  CITIES,          \* module data: the configured locations
  EXCHANGE_RATES,  \* module data: the default rate table
  phase,           \* "idle": waiting for an update; "done": a handler has run
  update,          \* the update being handled: its kind, its text or payload
  net,             \* the provider responses the handler was given
  outbox,          \* what the handler sent or edited, in order
  calls,           \* the provider requests the handler made, in order
  acked,           \* call.answer() was reached
  crashed,         \* an exception left the handler
  locals,          \* local values of the handler: amount, currency, rate, found city
  forecast_list,   \* get_forecast alone: the upstream "list"
  forecast_out,    \* get_forecast alone: what it returned
  chat             \* handlers of several chats interleaved: each chat's handler

vars == <<CITIES, EXCHANGE_RATES, phase, update, net, outbox, calls, acked,
          crashed, locals, forecast_list, forecast_out, chat>>

\* ------------------------------------------------------------------ module data

City(name, lat, lon) == [name |-> name, lat |-> lat, lon |-> lon]

\* coordinates in units of 0.0001 degree
InitialCities ==
  << City(<<"K","o","l","'","n">>, 509375, 69603),
     City(<<"L","i","n","c","-","a","m","-","R","a","j","n">>, 505667, 73167),
     City(<<"N","y","m","b","r","e","h","t">>, 509167, 76333),
     City(<<"G","u","m","m","e","r","s","b","a","h">>, 510236, 75628),
     City(<<"V","i","l","'">>, 509167, 75333),
     City(<<"D","i","r","e","n","h","a","u","z","e","n">>, 508833, 76167),
     City(<<"V","a","l","'","d","b","r","e","l","'">>, 509333, 77167) >>

InitialRates == [EUR |-> Frac(1, 1), UAH |-> Frac(445, 10)]

\* the literal "44.5" of item.get("sale", "44.5")
DefaultSale == <<"4","4",".","5">>

\* ------------------------------------------------------------------ views

cb_weather_ == <<"w","e","a","t","h","e","r","_">>
cb_forecast_ == <<"f","o","r","e","c","a","s","t","_">>
cb_weather_all == cb_weather_ \o <<"a","l","l">>
cb_forecast_all == cb_forecast_ \o <<"a","l","l">>
cb_list_cities == <<"l","i","s","t","_","c","i","t","i","e","s">>
cb_currency == <<"c","u","r","r","e","n","c","y">>
cb_currency_rates == cb_currency \o <<"_","r","a","t","e","s">>
cb_conv_eur_uah == <<"c","o","n","v","_","e","u","r","_","u","a","h">>
cb_conv_uah_eur == <<"c","o","n","v","_","u","a","h","_","e","u","r">>

\* a keyboard is a sequence of rows of buttons; a button is its callback_data
NoKeyboard == <<>>

get_currency_keyboard ==
  << <<cb_conv_eur_uah, cb_conv_uah_eur>>, <<cb_currency_rates>> >>

get_cities_keyboard(cities) ==
  [r \in 1..((Len(cities) + 1) \div 2) |->
     [k \in 1..(IF 2 * r <= Len(cities) THEN 2 ELSE 1) |->
        cb_weather_ \o cities[2 * (r - 1) + k].name]]

get_forecast_keyboard(city_name) ==
  << <<cb_forecast_ \o city_name>>, <<cb_weather_ \o city_name>> >>

get_main_keyboard ==
  << <<cb_weather_all>>, <<cb_forecast_all>>, <<cb_currency>>, <<cb_list_cities>> >>

ButtonsOf(keyboard) ==
  UNION {{keyboard[r][k] : k \in DOMAIN keyboard[r]} : r \in DOMAIN keyboard}

\* the payloads a button press can carry: those of the buttons the bot shows
Payloads ==
  ButtonsOf(get_main_keyboard) \cup ButtonsOf(get_currency_keyboard)
  \cup ButtonsOf(get_cities_keyboard(InitialCities))
  \cup UNION {ButtonsOf(get_forecast_keyboard(InitialCities[i].name)) :
                i \in DOMAIN InitialCities}

\* ------------------------------------------------------------------ messages

\* an outbound operation: message.answer / call.message.answer ("answer") or
\* call.message.edit_text ("edit_text"), with what its text is about
Msg(op, kind, city, markup, nums) ==
  [op |-> op, kind |-> kind, city |-> city, markup |-> markup, nums |-> nums]

Call(api, city) == [api |-> api, city |-> city]

\* what a handler did
Run(out, cl, ack, crash, loc) ==
  [out |-> out, calls |-> cl, acked |-> ack, crashed |-> crash, locals |-> loc]

NoLocals ==
  [amount |-> Frac(0, 1), currency |-> <<>>, rate |-> Frac(0, 1), found |-> 0]

Say(run, m) == [run EXCEPT !.out = Append(@, m)]
Request(run, c) == [run EXCEPT !.calls = Append(@, c)]
Raise(run) == [run EXCEPT !.crashed = TRUE]
Answer(run) == [run EXCEPT !.acked = TRUE]

\* ------------------------------------------------------------------ providers

\* an HTTP exchange: err = TRUE is a connection error or a timeout (aiohttp
\* raises), otherwise the response status
HttpOk == [err |-> FALSE, status |-> 200, body |-> <<>>]
HttpNotFound == [err |-> FALSE, status |-> 404, body |-> <<>>]
HttpError == [err |-> TRUE, status |-> 0, body |-> <<>>]

WeatherResponses == {HttpOk, HttpNotFound, HttpError}

\* no try/except around session.get: an aiohttp error leaves the function
get_weather(city_name, lat, lon, resp) ==
  IF resp.err THEN [raised |-> TRUE, present |-> FALSE, name |-> <<>>]
  ELSE IF resp.status = 200
    THEN [raised |-> FALSE, present |-> TRUE, name |-> city_name]
    ELSE [raised |-> FALSE, present |-> FALSE, name |-> <<>>]

format_weather(data) == data.name

\* one upstream forecast sample: dt_txt "<date> <time>" and its readings,
\* which temp stands for
Sample(date, time, temp) == [date |-> date, time |-> time, temp |-> temp]

Midday == "12:00:00"
Afternoon == "15:00:00"

\* daily_forecast[date] = entry on an insertion-ordered dict: a new key is
\* appended, an existing key keeps its place and takes the new value
DictSetDefault(d, key, entry) ==
  IF \E k \in DOMAIN d : d[k].date = key THEN d ELSE Append(d, entry)

DictSet(d, key, entry) ==
  IF \E k \in DOMAIN d : d[k].date = key
    THEN [k \in DOMAIN d |-> IF d[k].date = key THEN entry ELSE d[k]]
    ELSE Append(d, entry)

RECURSIVE DailyLoop(_, _, _)
DailyLoop(list, i, d) ==
  IF i > Len(list) THEN d
  ELSE LET item == list[i]
       IN DailyLoop(list, i + 1,
            IF item.time = Midday
              THEN DictSet(d, item.date, [date |-> item.date, temp |-> item.temp])
              ELSE d)

\* list(daily_forecast.values())[:3]
daily_forecast(list) ==
  LET d == DailyLoop(list, 1, <<>>)
  IN SubSeq(d, 1, IF Len(d) < 3 THEN Len(d) ELSE 3)

ForecastOk(list) == [err |-> FALSE, status |-> 200, body |-> list]
ForecastNotFound == [err |-> FALSE, status |-> 404, body |-> <<>>]
ForecastError == [err |-> TRUE, status |-> 0, body |-> <<>>]

\* the upstream lists the handlers are run with: two days with a midday
\* sample each, and a list with no midday sample
TwoDays ==
  <<Sample(1, "09:00:00", 11), Sample(1, Midday, 12), Sample(2, Midday, 13)>>
NoMidday == <<Sample(1, Afternoon, 14)>>

ForecastResponses ==
  {ForecastOk(TwoDays), ForecastOk(NoMidday), ForecastNotFound, ForecastError}

\* no try/except around session.get: an aiohttp error leaves the function
get_forecast(city_name, lat, lon, resp) ==
  IF resp.err THEN [raised |-> TRUE, present |-> FALSE, days |-> <<>>]
  ELSE IF resp.status = 200
    THEN [raised |-> FALSE, present |-> TRUE, days |-> daily_forecast(resp.body)]
    ELSE [raised |-> FALSE, present |-> FALSE, days |-> <<>>]

\* the text of a forecast: the city and, per day, the date and round(temp)
format_forecast(city_name, forecast) ==
  [k \in DOMAIN forecast |-> forecast[k].temp]

\* one entry of the rate service's list; has_sale = FALSE: no "sale" key
Item(ccy, has_sale, sale) == [ccy |-> ccy, has_sale |-> has_sale, sale |-> sale]

RatesOk(data) == [err |-> FALSE, status |-> 200, body |-> data]
RatesUnavailable == [err |-> FALSE, status |-> 503, body |-> <<>>]
RatesError == [err |-> TRUE, status |-> 0, body |-> <<>>]

Usd == Item("USD", TRUE, <<"4","1">>)

RateResponses ==
  { RatesOk(<<Usd, Item("EUR", TRUE, <<"4","4",".","5">>)>>),
    RatesOk(<<Item("EUR", TRUE, <<"4","1">>), Usd>>),
    RatesOk(<<Item("EUR", TRUE, <<"0">>)>>),
    RatesOk(<<Item("EUR", TRUE, <<"-","1">>)>>),
    RatesOk(<<Item("EUR", TRUE, <<"a">>)>>),
    RatesOk(<<Item("EUR", FALSE, <<>>)>>),
    RatesOk(<<Usd>>),
    RatesUnavailable,
    RatesError }

\* for item in data: if item.get("ccy") == "EUR": ... ; failed = float() raised
RECURSIVE RatesLoop(_, _, _)
RatesLoop(data, i, rates) ==
  IF i > Len(data) THEN [failed |-> FALSE, rates |-> rates]
  ELSE IF data[i].ccy # "EUR" THEN RatesLoop(data, i + 1, rates)
  ELSE LET f == ParseFloat(IF data[i].has_sale THEN data[i].sale ELSE DefaultSale)
       IN IF ~f.ok THEN [failed |-> TRUE, rates |-> rates]
          ELSE RatesLoop(data, i + 1, [EUR |-> f.val, UAH |-> One])

\* every exception is caught: the function always returns a rate table
get_exchange_rates(resp, defaults) ==
  IF resp.err THEN defaults
  ELSE IF resp.status = 200
    THEN LET l == RatesLoop(resp.body, 1, [EUR |-> One, UAH |-> Frac(445, 10)])
         IN IF l.failed THEN defaults ELSE l.rates
    ELSE defaults

EUR == <<"E","U","R">>
UAH == <<"U","A","H">>

\* rates.get(code, 1.0)
RateOf(rates, code) ==
  IF code = EUR THEN rates.EUR ELSE IF code = UAH THEN rates.UAH ELSE One

\* raised = TRUE: ZeroDivisionError
convert_currency(amount, from_currency, to_currency, rates) ==
  IF from_currency = to_currency
    THEN [raised |-> FALSE, result |-> amount, rate |-> RateOf(rates, from_currency)]
  ELSE IF from_currency = EUR
    THEN [raised |-> FALSE, result |-> FracMul(amount, RateOf(rates, EUR)),
          rate |-> RateOf(rates, EUR)]
  ELSE IF RateOf(rates, EUR).n = 0
    THEN [raised |-> TRUE, result |-> Frac(0, 1), rate |-> Frac(0, 1)]
    ELSE [raised |-> FALSE, result |-> FracDiv(amount, RateOf(rates, EUR)),
          rate |-> FracDiv(One, RateOf(rates, EUR))]

\* ------------------------------------------------------------------ commands

NewRun == Run(<<>>, <<>>, FALSE, FALSE, NoLocals)

cmd_start(cities) ==
  Say(NewRun, Msg("answer", "start", <<>>, get_main_keyboard, <<>>))

cmd_help(cities) ==
  Say(NewRun, Msg("answer", "help", <<>>, get_main_keyboard, <<Len(cities)>>))

\* for city_name, lat, lon in CITIES: ... from the i-th city on
RECURSIVE cmd_weather_loop(_, _, _, _)
cmd_weather_loop(cities, resps, i, run) ==
  IF i > Len(cities) THEN run
  ELSE LET c == cities[i]
           weather_data == get_weather(c.name, c.lat, c.lon, resps[i])
           asked == Request(run, Call("weather", c.name))
       IN IF weather_data.raised THEN Raise(asked)
          ELSE cmd_weather_loop(cities, resps, i + 1,
                 IF weather_data.present
                   THEN Say(asked, Msg("answer", "weather", format_weather(weather_data),
                                       NoKeyboard, <<>>))
                   ELSE Say(asked, Msg("answer", "weather_failed", c.name,
                                       NoKeyboard, <<>>)))

cmd_weather(cities, resps) ==
  cmd_weather_loop(cities, resps, 1,
    Say(NewRun, Msg("answer", "loading_weather", <<>>, NoKeyboard, <<Len(cities)>>)))

\* the match of one city against the lowered query
CityMatchesOneWay(city_name, city_query) == Contains(Lower(city_name), city_query)

CityMatches(city_name, city_query) ==
  Contains(Lower(city_name), city_query) \/ Contains(city_query, Lower(city_name))

\* for ... in CITIES: if <match>: found_city = ...; break  (0: no city found)
RECURSIVE FindCity(_, _, _)
FindCity(cities, city_query, i) ==
  IF i > Len(cities) THEN 0
  ELSE IF CityMatches(cities[i].name, city_query) THEN i
  ELSE FindCity(cities, city_query, i + 1)

cmd_city(cities, text, resp) ==
  LET cmd == Split1(text)
  IN IF Len(cmd) < 2
       THEN Say(NewRun, Msg("answer", "city_usage", <<>>, NoKeyboard, <<>>))
     ELSE
       LET city_query == Lower(cmd[2])
           found == FindCity(cities, city_query, 1)
           run == [NewRun EXCEPT !.locals.found = found]
       IN IF found = 0
            THEN Say(run, Msg("answer", "city_not_found", cmd[2], NoKeyboard, <<>>))
          ELSE
            LET c == cities[found]
                weather_data == get_weather(c.name, c.lat, c.lon, resp)
                asked == Request(run, Call("weather", c.name))
            IN IF weather_data.raised THEN Raise(asked)
               ELSE IF weather_data.present
                 THEN Say(asked, Msg("answer", "weather", format_weather(weather_data),
                                     NoKeyboard, <<>>))
                 ELSE Say(asked, Msg("answer", "weather_failed", c.name,
                                     NoKeyboard, <<>>))

cmd_near(cities) ==
  Say(NewRun, Msg("answer", "cities", <<>>, get_cities_keyboard(cities), <<Len(cities)>>))

RECURSIVE cmd_forecast_loop(_, _, _, _)
cmd_forecast_loop(cities, resps, i, run) ==
  IF i > Len(cities) THEN run
  ELSE LET c == cities[i]
           forecast_data == get_forecast(c.name, c.lat, c.lon, resps[i])
           asked == Request(run, Call("forecast", c.name))
       IN IF forecast_data.raised THEN Raise(asked)
          ELSE cmd_forecast_loop(cities, resps, i + 1,
                 \* "if forecast_data": neither None nor an empty list
                 IF forecast_data.present /\ forecast_data.days # <<>>
                   THEN Say(asked, Msg("answer", "forecast", c.name, NoKeyboard,
                                       format_forecast(c.name, forecast_data.days)))
                   ELSE Say(asked, Msg("answer", "forecast_failed", c.name,
                                       NoKeyboard, <<>>)))

cmd_forecast(cities, resps) ==
  cmd_forecast_loop(cities, resps, 1,
    Say(NewRun, Msg("answer", "loading_forecast", <<>>, NoKeyboard, <<Len(cities)>>)))

\* the reply of the currency menu: eur_rate to 2 decimals, 1/eur_rate to 4;
\* 1/eur_rate raises ZeroDivisionError for a rate of 0
RatesReplyEditing(run, op, kind, rates) ==
  LET eur_rate == RateOf(rates, EUR)
      asked == [Request(run, Call("rates", <<>>)) EXCEPT !.locals.rate = eur_rate]
  IN IF eur_rate.n = 0 THEN Raise(asked)
     ELSE Say(asked, Msg("edit_text", kind, <<>>, get_currency_keyboard,
                         <<Fmt(eur_rate, 2), Fmt(FracDiv(One, eur_rate), 4)>>))

RatesReply(run, op, kind, rates) ==
  LET eur_rate == RateOf(rates, EUR)
      asked == [Request(run, Call("rates", <<>>)) EXCEPT !.locals.rate = eur_rate]
  IN IF eur_rate.n = 0 THEN Raise(asked)
     ELSE Say(asked, Msg(op, kind, <<>>, get_currency_keyboard,
                         <<Fmt(eur_rate, 2), Fmt(FracDiv(One, eur_rate), 4)>>))

\* if currency is None: amount >= 100 is taken for UAH, less for EUR
InferCurrencyAbove(amount) == IF amount.n > 100 * amount.d THEN UAH ELSE EUR

InferCurrency(amount) == IF FracGe(amount, 100) THEN UAH ELSE EUR

\* currency in ["EUR", "UAH"]
SupportedCurrencyOrDollar(currency) == currency \in {EUR, UAH, <<"U","S","D">>}

SupportedCurrency(currency) == currency \in {EUR, UAH}

cmd_currency(text, resp, defaults) ==
  LET parts == Split(text)
  IN IF Len(parts) < 2
       THEN RatesReply(NewRun, "answer", "rates", get_exchange_rates(resp, defaults))
     ELSE
       LET amount_str == ReplaceComma(parts[2])
           given == IF Len(parts) > 2 THEN Upper(parts[3]) ELSE <<>>
           parsed == ParseFloat(amount_str)
           amount == parsed.val
           currency == IF Len(parts) > 2 THEN given ELSE InferCurrency(amount)
           run == [NewRun EXCEPT !.locals.amount = amount, !.locals.currency = currency]
       IN IF ~parsed.ok
            THEN Say(NewRun, Msg("answer", "bad_format", <<>>, NoKeyboard, <<>>))
          ELSE IF ~SupportedCurrency(currency)
            THEN Say(run, Msg("answer", "bad_currency", <<>>, NoKeyboard, <<>>))
          ELSE
            LET rates == get_exchange_rates(resp, defaults)
                asked == [Request(run, Call("rates", <<>>))
                            EXCEPT !.locals.rate = RateOf(rates, EUR)]
                conv == IF currency = EUR
                          THEN convert_currency(amount, EUR, UAH, rates)
                          ELSE convert_currency(amount, UAH, EUR, rates)
            IN IF conv.raised THEN Raise(asked)
               ELSE IF currency = EUR
                 THEN Say(asked, Msg("answer", "eur_to_uah", <<>>, NoKeyboard,
                        <<Fmt(amount, 2), Fmt(conv.result, 2), Fmt(conv.rate, 2)>>))
                 ELSE Say(asked, Msg("answer", "uah_to_eur", <<>>, NoKeyboard,
                        <<Fmt(amount, 2), Fmt(conv.result, 2), Fmt(conv.rate, 4)>>))

\* ------------------------------------------------------------------ buttons

RECURSIVE callback_weather_loop(_, _, _, _)
callback_weather_loop(cities, resps, i, run) ==
  IF i > Len(cities) THEN run
  ELSE LET c == cities[i]
           weather_data == get_weather(c.name, c.lat, c.lon, resps[i])
           asked == Request(run, Call("weather", c.name))
       IN IF weather_data.raised THEN Raise(asked)
          ELSE callback_weather_loop(cities, resps, i + 1,
                 IF weather_data.present
                   THEN Say(asked, Msg("answer", "weather", format_weather(weather_data),
                                       get_forecast_keyboard(c.name), <<>>))
                   ELSE Say(asked, Msg("answer", "weather_failed", c.name,
                                       NoKeyboard, <<>>)))

RECURSIVE callback_forecast_loop(_, _, _, _)
callback_forecast_loop(cities, resps, i, run) ==
  IF i > Len(cities) THEN run
  ELSE LET c == cities[i]
           forecast_data == get_forecast(c.name, c.lat, c.lon, resps[i])
           asked == Request(run, Call("forecast", c.name))
       IN IF forecast_data.raised THEN Raise(asked)
          ELSE callback_forecast_loop(cities, resps, i + 1,
                 IF forecast_data.present /\ forecast_data.days # <<>>
                   THEN Say(asked, Msg("answer", "forecast", c.name, NoKeyboard,
                                       format_forecast(c.name, forecast_data.days)))
                   ELSE Say(asked, Msg("answer", "forecast_failed", c.name,
                                       NoKeyboard, <<>>)))

\* for c_name, lat, lon in CITIES: if c_name == city_name: ...; break
RECURSIVE FindExact(_, _, _)
FindExact(cities, city_name, i) ==
  IF i > Len(cities) THEN 0
  ELSE IF cities[i].name = city_name THEN i
  ELSE FindExact(cities, city_name, i + 1)

\* a handler that has not raised goes on to call.answer()
AnswerUnlessRaised(run) == IF run.crashed THEN run ELSE Answer(run)

\* resps: the weather or forecast responses, one per request in order;
\* rate_resp: the rate service's response
process_callback(cities, action, resps, rate_resp, defaults) ==
  IF action = cb_weather_all
    THEN AnswerUnlessRaised(
           callback_weather_loop(cities, resps, 1,
             Say(NewRun, Msg("edit_text", "loading_weather", <<>>, get_main_keyboard,
                             <<Len(cities)>>))))
  ELSE IF action = cb_forecast_all
    THEN AnswerUnlessRaised(
           callback_forecast_loop(cities, resps, 1,
             Say(NewRun, Msg("edit_text", "loading_forecast", <<>>, get_main_keyboard,
                             <<Len(cities)>>))))
  ELSE IF action = cb_list_cities
    THEN Answer(Say(NewRun, Msg("edit_text", "cities", <<>>,
                                get_cities_keyboard(cities), <<Len(cities)>>)))
  ELSE IF StartsWith(action, cb_weather_)
    THEN LET city_name == SubSeq(action, Len(cb_weather_) + 1, Len(action))
             found == FindExact(cities, city_name, 1)
             run == Say([NewRun EXCEPT !.locals.found = found],
                        Msg("answer", "loading_city_weather", city_name, NoKeyboard, <<>>))
         IN IF found = 0 THEN Answer(run)
            ELSE
              LET c == cities[found]
                  weather_data == get_weather(c.name, c.lat, c.lon, resps[1])
                  asked == Request(run, Call("weather", c.name))
              IN IF weather_data.raised THEN Raise(asked)
                 ELSE IF weather_data.present
                   THEN Answer(Say(asked, Msg("answer", "weather",
                                 format_weather(weather_data),
                                 get_forecast_keyboard(city_name), <<>>)))
                   ELSE Answer(Say(asked, Msg("answer", "weather_failed", city_name,
                                 NoKeyboard, <<>>)))
  ELSE IF StartsWith(action, cb_forecast_)
    THEN LET city_name == SubSeq(action, Len(cb_forecast_) + 1, Len(action))
             found == FindExact(cities, city_name, 1)
             run == Say([NewRun EXCEPT !.locals.found = found],
                        Msg("answer", "loading_city_forecast", city_name, NoKeyboard, <<>>))
         IN IF found = 0 THEN Answer(run)
            ELSE
              LET c == cities[found]
                  forecast_data == get_forecast(c.name, c.lat, c.lon, resps[1])
                  asked == Request(run, Call("forecast", c.name))
              IN IF forecast_data.raised THEN Raise(asked)
                 ELSE IF forecast_data.present /\ forecast_data.days # <<>>
                   THEN Answer(Say(asked, Msg("answer", "forecast", c.name, NoKeyboard,
                                 format_forecast(c.name, forecast_data.days))))
                   ELSE Answer(Say(asked, Msg("answer", "forecast_failed", city_name,
                                 NoKeyboard, <<>>)))
  ELSE IF action = cb_currency
    THEN AnswerUnlessRaised(
           RatesReply(NewRun, "answer", "rates", get_exchange_rates(rate_resp, defaults)))
  ELSE IF action = cb_currency_rates
    THEN AnswerUnlessRaised(
           RatesReply(NewRun, "edit_text", "rates_refreshed",
                      get_exchange_rates(rate_resp, defaults)))
  ELSE IF action = cb_conv_eur_uah
    THEN Answer(Say(NewRun, Msg("answer", "prompt_eur", <<>>, NoKeyboard, <<>>)))
  ELSE IF action = cb_conv_uah_eur
    THEN Answer(Say(NewRun, Msg("answer", "prompt_uah", <<>>, NoKeyboard, <<>>)))
  ELSE NewRun

\* ------------------------------------------------------------------ updates

slash_start == <<"/","s","t","a","r","t">>
slash_help == <<"/","h","e","l","p">>
slash_weather == <<"/","w","e","a","t","h","e","r">>
slash_forecast == <<"/","f","o","r","e","c","a","s","t">>
slash_currency == <<"/","c","u","r","r","e","n","c","y">>
slash_near == <<"/","n","e","a","r">>
slash_city == <<"/","c","i","t","y">>

Message(text) == [kind |-> "message", text |-> text]
CallbackQuery(data) == [kind |-> "callback_query", text |-> data]
NoUpdate == [kind |-> "none", text |-> <<>>]

\* the handler the dispatcher gives an update to: the Command filters in the
\* order of registration, then the "/city" prefix test; every callback query
\* goes to process_callback
Route(u) ==
  IF u.kind = "callback_query" THEN "process_callback"
  ELSE LET words == Split(u.text)
           first == IF words = <<>> THEN <<>> ELSE words[1]
       IN IF first = slash_start THEN "cmd_start"
          ELSE IF first = slash_help THEN "cmd_help"
          ELSE IF first = slash_weather THEN "cmd_weather"
          ELSE IF first = slash_forecast THEN "cmd_forecast"
          ELSE IF first = slash_currency THEN "cmd_currency"
          ELSE IF first = slash_near THEN "cmd_near"
          ELSE IF StartsWith(u.text, slash_city) THEN "cmd_city"
          ELSE "none"

\* all texts over chars of length 1..n
Words(chars, n) == UNION {[1..k -> chars] : k \in 1..n}

Blank == <<" ">>

AmountChars == {"0", "1", "9", ".", ",", "a"}
CurrencyWords ==
  {EUR, <<"e","u","r">>, UAH, <<"u","A","h">>, <<"U","S","D">>}

\* "/currency", "/currency <amount>" or "/currency <amount> <currency>"
\* (<<>> for a word that is not there)
CurrencyText(a, c) ==
  IF a = <<>> THEN slash_currency
  ELSE IF c = <<>> THEN slash_currency \o Blank \o a
  ELSE slash_currency \o Blank \o a \o Blank \o c

Names == {InitialCities[i].name : i \in DOMAIN InitialCities}
PartsOf(s) == {SubSeq(s, i, j) : i \in 1..Len(s), j \in 1..Len(s)} \ {<<>>}
AffixChars == {"x", " "}

\* /city queries: every part of every configured name, a name with text
\* before or after it, two names, and text that is in no name; in the
\* spelling of the list, in lower case and in upper case
Queries ==
  LET parts == UNION {PartsOf(n) : n \in Names}
      affixes == Words(AffixChars, MaxAffixLen)
      longer == {n \o a : n \in Names, a \in affixes}
                  \cup {a \o n : n \in Names, a \in affixes}
                  \cup {n \o Blank \o m : n \in Names, m \in Names}
      plain == parts \cup longer \cup {<<"x">>, <<"k","o","l","n">>}
  IN plain \cup {Lower(q) : q \in plain} \cup {Upper(q) : q \in plain}

CityTexts ==
  {slash_city, slash_city \o Blank} \cup {slash_city \o Blank \o q : q \in Queries}

Times == {Midday, Afternoon}

\* an upstream forecast list of k samples with the dates and times of day f;
\* the reading of a sample is its position in the list, which tells samples apart
Upstream(k, f) == [i \in 1..k |-> Sample(f[i][1], f[i][2], i)]

\* ------------------------------------------------------------------ chats

Chats == 1..NumChats

\* the handler of one chat between two awaits: pc is where it stands, i the
\* city its loop is at, rates the dict its local name "rates" is bound to
\* ("module": the EXCHANGE_RATES object itself, "local": a dict of its own,
\* whose content is table), eur_rate the rate it read for its reply
\* net is the answer its rate request got, crashed whether it ended by raising
ChatState(pc, u, i, rates, table, n, eur_rate, crash) ==
  [pc |-> pc, update |-> u, i |-> i, rates |-> rates, table |-> table,
   net |-> n, eur_rate |-> eur_rate, crashed |-> crash]

IdleChat ==
  ChatState("idle", NoUpdate, 0, "none", InitialRates, RatesError, Frac(0, 1), FALSE)

\* ------------------------------------------------------------------ actions

Init ==
  /\ CITIES = InitialCities
  /\ EXCHANGE_RATES = InitialRates
  /\ phase = "idle"
  /\ update = NoUpdate
  /\ net = <<>>
  /\ outbox = <<>>
  /\ calls = <<>>
  /\ acked = FALSE
  /\ crashed = FALSE
  /\ locals = NoLocals
  /\ forecast_list = <<>>
  /\ forecast_out = <<>>
  /\ chat = [c \in Chats |-> IdleChat]

\* the handler of update u ran to its end (or to the exception that left it),
\* given the provider responses n
Handle(u, n, run) ==
  /\ phase' = "done"
  /\ update' = u
  /\ net' = n
  /\ outbox' = run.out
  /\ calls' = run.calls
  /\ acked' = run.acked
  /\ crashed' = run.crashed
  /\ locals' = run.locals
  /\ UNCHANGED <<CITIES, EXCHANGE_RATES, forecast_list, forecast_out, chat>>

\* the responses a handler consumed: one per request it made
Consumed(resps, run) == SubSeq(resps, 1, Len(run.calls))

Start ==
  /\ phase = "idle"
  /\ \E u \in {Message(slash_start)} :
       /\ Route(u) = "cmd_start"
       /\ Handle(u, <<>>, cmd_start(CITIES))

Help ==
  /\ phase = "idle"
  /\ \E u \in {Message(slash_help)} :
       /\ Route(u) = "cmd_help"
       /\ Handle(u, <<>>, cmd_help(CITIES))

Weather ==
  /\ phase = "idle"
  /\ \E u \in {Message(slash_weather)} :
       /\ Route(u) = "cmd_weather"
       /\ \E resps \in [1..Len(CITIES) -> WeatherResponses] :
            LET run == cmd_weather(CITIES, resps)
            IN Handle(u, Consumed(resps, run), run)

CityCmd ==
  /\ phase = "idle"
  /\ \E text \in CityTexts :
       /\ Route(Message(text)) = "cmd_city"
       /\ \E resp \in WeatherResponses :
            LET run == cmd_city(CITIES, text, resp)
            IN Handle(Message(text), Consumed(<<resp>>, run), run)

Near ==
  /\ phase = "idle"
  /\ \E u \in {Message(slash_near)} :
       /\ Route(u) = "cmd_near"
       /\ Handle(u, <<>>, cmd_near(CITIES))

Forecast ==
  /\ phase = "idle"
  /\ \E u \in {Message(slash_forecast)} :
       /\ Route(u) = "cmd_forecast"
       /\ \E resps \in [1..Len(CITIES) -> ForecastResponses] :
            LET run == cmd_forecast(CITIES, resps)
            IN Handle(u, Consumed(resps, run), run)

\* the rate service answers only when asked
Currency ==
  /\ phase = "idle"
  /\ \E k \in 0..MaxAmountLen :
     \E a \in [1..k -> AmountChars] :
       \E c \in (IF a = <<>> THEN {<<>>} ELSE {<<>>} \cup CurrencyWords) :
         LET text == CurrencyText(a, c)
             asks == cmd_currency(text, RatesError, EXCHANGE_RATES).calls # <<>>
         IN /\ Route(Message(text)) = "cmd_currency"
            /\ \E resp \in (IF asks THEN RateResponses ELSE {RatesError}) :
                 LET run == cmd_currency(text, resp, EXCHANGE_RATES)
                 IN Handle(Message(text), Consumed(<<resp>>, run), run)

\* the provider responses a button press can meet
ResponsesFor(action, cities) ==
  IF action = cb_weather_all THEN [1..Len(cities) -> WeatherResponses]
  ELSE IF action = cb_forecast_all THEN [1..Len(cities) -> ForecastResponses]
  ELSE IF StartsWith(action, cb_weather_) THEN [1..1 -> WeatherResponses]
  ELSE IF StartsWith(action, cb_forecast_) THEN [1..1 -> ForecastResponses]
  ELSE IF action \in {cb_currency, cb_currency_rates} THEN [1..1 -> RateResponses]
  ELSE {<<>>}

Callback ==
  /\ phase = "idle"
  /\ \E action \in Payloads :
       /\ Route(CallbackQuery(action)) = "process_callback"
       /\ \E resps \in ResponsesFor(action, CITIES) :
            LET rate_resp == IF action \in {cb_currency, cb_currency_rates}
                               THEN resps[1] ELSE RatesError
                run == process_callback(CITIES, action, resps, rate_resp, EXCHANGE_RATES)
            IN Handle(CallbackQuery(action), Consumed(resps, run), run)

\* the dispatcher takes the next update
Poll ==
  /\ phase = "done"
  /\ phase' = "idle"
  /\ update' = NoUpdate
  /\ net' = <<>>
  /\ outbox' = <<>>
  /\ calls' = <<>>
  /\ acked' = FALSE
  /\ crashed' = FALSE
  /\ locals' = NoLocals
  /\ UNCHANGED <<CITIES, EXCHANGE_RATES, forecast_list, forecast_out, chat>>

Next ==
  \/ Start
  \/ Help
  \/ Weather
  \/ CityCmd
  \/ Near
  \/ Forecast
  \/ Currency
  \/ Callback
  \/ Poll

Spec == Init /\ [][Next]_vars

\* get_forecast alone, on every upstream list within the bounds
InitForecast ==
  /\ CITIES = InitialCities
  /\ EXCHANGE_RATES = InitialRates
  /\ phase = "idle"
  /\ update = NoUpdate
  /\ net = <<>>
  /\ outbox = <<>>
  /\ calls = <<>>
  /\ acked = FALSE
  /\ crashed = FALSE
  /\ locals = NoLocals
  /\ \E k \in 0..MaxSamples :
       \E f \in [1..k -> (1..NumDates) \X Times] : forecast_list = Upstream(k, f)
  /\ forecast_out = <<>>
  /\ chat = [c \in Chats |-> IdleChat]

ForecastCall ==
  /\ phase = "idle"
  /\ phase' = "done"
  /\ forecast_out' =
       get_forecast(CITIES[1].name, CITIES[1].lat, CITIES[1].lon,
                    ForecastOk(forecast_list)).days
  /\ UNCHANGED <<CITIES, EXCHANGE_RATES, update, net, outbox, calls, acked,
                 crashed, locals, forecast_list, chat>>

NextForecast == ForecastCall

SpecForecast == InitForecast /\ [][NextForecast]_vars

\* ------------------------------------------------------------------ interleaving

\* dp.start_polling runs the handler of each update as a task of its own: the
\* handlers of different chats interleave at their awaits
ChatUpdates ==
  {Message(slash_currency), CallbackQuery(cb_currency_rates),
   Message(slash_weather), Message(slash_forecast)}

\* the first awaited client of the handler an update is given to
FirstAwait(u) ==
  IF Route(u) = "cmd_weather" THEN "get_weather"
  ELSE IF Route(u) = "cmd_forecast" THEN "get_forecast"
  ELSE "get_exchange_rates"

\* a handler starts and runs up to its first request
Receive(c) ==
  /\ chat[c].pc = "idle"
  /\ \E u \in ChatUpdates :
       /\ Route(u) \in {"cmd_currency", "process_callback", "cmd_weather", "cmd_forecast"}
       /\ chat' = [chat EXCEPT ![c] = [IdleChat EXCEPT !.pc = FirstAwait(u),
                                                       !.update = u, !.i = 1]]
  /\ UNCHANGED <<CITIES, EXCHANGE_RATES, phase, update, net, outbox, calls, acked,
                 crashed, locals, forecast_list, forecast_out>>

\* the dict the assignments of the loop go to, were it EXCHANGE_RATES itself
RatesDictShared == "module"

\* rates = {"EUR": 1.0, "UAH": 44.5}: the loop assigns into a dict of the call
RatesDict == "local"

\* the dict the local name "rates" of chat c's handler stands for
Deref(c) == IF chat[c].rates = "module" THEN EXCHANGE_RATES ELSE chat[c].table

\* the rate service has answered chat c's request: get_exchange_rates runs from
\* response.json() to its return; what it returns is the dict of the loop, or
\* the EXCHANGE_RATES object on any failure
RatesFetched(c) ==
  /\ chat[c].pc = "get_exchange_rates"
  /\ \E resp \in RateResponses :
       LET ok == ~resp.err /\ resp.status = 200
           dict == RatesDict
           fresh == [EUR |-> One, UAH |-> Frac(445, 10)]
           l == RatesLoop(resp.body, 1, IF dict = "module" THEN EXCHANGE_RATES ELSE fresh)
           returned == IF ok /\ ~l.failed THEN dict ELSE "module"
       IN /\ EXCHANGE_RATES' = IF ok /\ dict = "module" THEN l.rates ELSE EXCHANGE_RATES
          /\ chat' = [chat EXCEPT ![c] =
                       [@ EXCEPT !.pc = "reply", !.net = resp, !.rates = returned,
                                 !.table = IF returned = "local" THEN l.rates ELSE @]]
  /\ UNCHANGED <<CITIES, phase, update, net, outbox, calls, acked,
                 crashed, locals, forecast_list, forecast_out>>

\* the handler of chat c resumes: eur_rate = rates.get("EUR", 1.0), then the
\* reply, whose 1/eur_rate raises on a rate of zero
RatesReplied(c) ==
  /\ chat[c].pc = "reply"
  /\ LET eur_rate == RateOf(Deref(c), EUR)
     IN chat' = [chat EXCEPT ![c] = [@ EXCEPT !.pc = "done", !.eur_rate = eur_rate,
                                               !.crashed = (eur_rate.n = 0)]]
  /\ UNCHANGED <<CITIES, EXCHANGE_RATES, phase, update, net, outbox, calls, acked,
                 crashed, locals, forecast_list, forecast_out>>

\* chat c's loop over CITIES after the answer for its i-th city: a raising
\* client ends the handler, otherwise the reply is sent and the loop goes on
LoopStep(c, raised) ==
  chat' = [chat EXCEPT ![c] =
             IF raised THEN [@ EXCEPT !.pc = "done", !.crashed = TRUE]
             ELSE IF @.i = Len(CITIES) THEN [@ EXCEPT !.pc = "done"]
             ELSE [@ EXCEPT !.i = @ + 1]]

WeatherFetched(c) ==
  /\ chat[c].pc = "get_weather"
  /\ \E resp \in WeatherResponses :
       LET city == CITIES[chat[c].i]
       IN LoopStep(c, get_weather(city.name, city.lat, city.lon, resp).raised)
  /\ UNCHANGED <<CITIES, EXCHANGE_RATES, phase, update, net, outbox, calls, acked,
                 crashed, locals, forecast_list, forecast_out>>

ForecastFetched(c) ==
  /\ chat[c].pc = "get_forecast"
  /\ \E resp \in ForecastResponses :
       LET city == CITIES[chat[c].i]
       IN LoopStep(c, get_forecast(city.name, city.lat, city.lon, resp).raised)
  /\ UNCHANGED <<CITIES, EXCHANGE_RATES, phase, update, net, outbox, calls, acked,
                 crashed, locals, forecast_list, forecast_out>>

\* the task of chat c's handler is over and its locals are gone
Finish(c) ==
  /\ chat[c].pc = "done"
  /\ chat' = [chat EXCEPT ![c] = IdleChat]
  /\ UNCHANGED <<CITIES, EXCHANGE_RATES, phase, update, net, outbox, calls, acked,
                 crashed, locals, forecast_list, forecast_out>>

NextChats ==
  \E c \in Chats :
    \/ Receive(c)
    \/ RatesFetched(c)
    \/ RatesReplied(c)
    \/ WeatherFetched(c)
    \/ ForecastFetched(c)
    \/ Finish(c)

SpecChats == Init /\ [][NextChats]_vars

\* ------------------------------------------------------------------ properties

Done == phase = "done"
Parts == Split(update.text)

IsWeatherAll ==
  \/ update.kind = "message" /\ Route(update) = "cmd_weather"
  \/ update.kind = "callback_query" /\ update.text = cb_weather_all

IsCityReply(m) == m.kind \in {"weather", "weather_failed"}

\* C1: when a weather_all handler (/weather or button weather_all) has ended,
\* whatever each fetch did, its per-city replies (the weather or the apology)
\* are exactly one per configured city, in the order of the list.
C1_OneReplyPerCityInOrder ==
  (Done /\ IsWeatherAll) =>
    LET replies == SelectSeq(outbox, IsCityReply)
    IN /\ Len(replies) = Len(CITIES)
       /\ \A k \in DOMAIN replies : replies[k].city = CITIES[k].name

\* C2: every button press that process_callback has handled was acknowledged:
\* call.answer() was reached, for every payload and every fetch outcome.
C2_CallbackAcknowledged ==
  (Done /\ update.kind = "callback_query") => acked

\* C3: a handler whose last provider request was a weather or forecast
\* request never ends with an exception: get_weather and get_forecast return
\* absent on a non-200 status and on a network error alike.
C3_WeatherClientsNeverRaise ==
  (Done /\ calls # <<>> /\ calls[Len(calls)].api \in {"weather", "forecast"})
    => ~crashed

HasEurEntry(resp) == \E i \in DOMAIN resp.body : resp.body[i].ccy = "EUR"

FetchFailed(resp) == resp.err \/ resp.status # 200 \/ ~HasEurEntry(resp)

AskedRates == calls # <<>> /\ calls[Len(calls)].api = "rates"

\* C4: when the rate fetch failed (connection error, non-200 status, or a 200
\* list with no EUR entry), the handler does not fail and the EUR rate it
\* displays and converts with is the fallback, 44.5.
C4_FallbackRateIs44_5 ==
  (Done /\ AskedRates /\ FetchFailed(net[Len(net)])) =>
    /\ ~crashed
    /\ locals.rate.n * 10 = 445 * locals.rate.d

\* C5: the EUR rate a currency handler divides by or multiplies with is
\* greater than zero, whatever the rate service returned.
C5_RatePositive ==
  (Done /\ AskedRates) => locals.rate.n > 0

IsCurrencyWithArgument ==
  Done /\ update.kind = "message" /\ Route(update) = "cmd_currency" /\ Len(Parts) >= 2

AmountParses == ParseFloat(ReplaceComma(Parts[2])).ok
Amount == ParseFloat(ReplaceComma(Parts[2])).val
BadCurrencyWord == Len(Parts) > 2 /\ Upper(Parts[3]) \notin {EUR, UAH}

\* C6: /currency with an argument whose amount is no number, or whose currency
\* word is neither EUR nor UAH in any letter case, is answered with exactly
\* one usage message, and the rate service is not called.
C6_BadInputGetsUsageAndNoFetch ==
  (IsCurrencyWithArgument /\ (~AmountParses \/ BadCurrencyWord)) =>
    /\ calls = <<>>
    /\ ~crashed
    /\ Len(outbox) = 1
    /\ outbox[1].op = "answer"
    /\ outbox[1].kind \in {"bad_format", "bad_currency"}

\* a well-formed amount with a currency word that is not supported was answered
C6_Witness ==
  /\ IsCurrencyWithArgument
  /\ AmountParses
  /\ BadCurrencyWord
  /\ outbox = <<Msg("answer", "bad_currency", <<>>, NoKeyboard, <<>>)>>

\* the fetch gave a rate: status 200 and an EUR entry whose quote is a number
FetchedRate ==
  LET resp == net[Len(net)]
      i == CHOOSE j \in DOMAIN resp.body : resp.body[j].ccy = "EUR"
  IN ParseFloat(resp.body[i].sale).val

RateWasFetched ==
  /\ AskedRates
  /\ LET resp == net[Len(net)]
     IN /\ ~resp.err /\ resp.status = 200
        /\ \E j \in DOMAIN resp.body :
             /\ resp.body[j].ccy = "EUR" /\ resp.body[j].has_sale
             /\ ParseFloat(resp.body[j].sale).ok

IsCityWithQuery ==
  Done /\ update.kind = "message" /\ Route(update) = "cmd_city" /\ Len(Split1(update.text)) = 2

Query == Lower(Split1(update.text)[2])

NameContainsQuery(i) == Contains(Lower(CITIES[i].name), Query)
QueryContainsName(i) == Contains(Query, Lower(CITIES[i].name))

First(S) == CHOOSE i \in S : \A j \in S : i <= j

NotFoundReply ==
  /\ calls = <<>>
  /\ Len(outbox) = 1
  /\ outbox[1].kind = "city_not_found"

\* C8 as claimed: /city <query> selects the first city of the list whose name
\* contains the query, letter case aside; when no name contains the query the
\* reply is "not found" and the weather service is not called.
C8_FirstNameContainingQuery ==
  IsCityWithQuery =>
    LET S == {i \in DOMAIN CITIES : NameContainsQuery(i)}
    IN IF S = {} THEN NotFoundReply
       ELSE /\ locals.found = First(S)
            /\ calls = <<Call("weather", CITIES[First(S)].name)>>

\* C8 as amended: /city <query> selects the first city of the list whose name
\* contains the query or is contained in the query, letter case aside; when
\* no name contains the query or is contained in it the reply is "not found"
\* and the weather service is not called.
C8_FirstNameContainingOrContained ==
  IsCityWithQuery =>
    LET S == {i \in DOMAIN CITIES : NameContainsQuery(i) \/ QueryContainsName(i)}
    IN IF S = {} THEN NotFoundReply
       ELSE /\ locals.found = First(S)
            /\ calls = <<Call("weather", CITIES[First(S)].name)>>

\* a query that no name contains, but that contains the names of two cities,
\* selected the one that comes first in the list
C8_Witness ==
  /\ IsCityWithQuery
  /\ \A i \in DOMAIN CITIES : ~NameContainsQuery(i)
  /\ Cardinality({i \in DOMAIN CITIES : QueryContainsName(i)}) = 2
  /\ locals.found = First({i \in DOMAIN CITIES : QueryContainsName(i)})
  /\ calls # <<>>

IsWeatherOne ==
  \/ update.kind = "message" /\ Route(update) = "cmd_city"
  \/ /\ update.kind = "callback_query"
     /\ StartsWith(update.text, cb_weather_)
     /\ update.text # cb_weather_all

\* C9: by /city <name> and by button weather_<name> alike, the reply that
\* carries the weather of the city carries the follow-up view of that city:
\* its forecast button and its refresh button.
C9_WeatherReplyHasFollowUpView ==
  (Done /\ IsWeatherOne) =>
    \A k \in DOMAIN outbox :
      outbox[k].kind = "weather" =>
        outbox[k].markup = << <<cb_forecast_ \o outbox[k].city>>,
                              <<cb_weather_ \o outbox[k].city>> >>

IsMiddayOf(i, date) ==
  forecast_list[i].time = Midday /\ forecast_list[i].date = date

MiddaysOf(date) == {i \in DOMAIN forecast_list : IsMiddayOf(i, date)}

Last(S) == CHOOSE i \in S : \A j \in S : j <= i

\* at most 3 entries, of distinct dates, each of a date that has a midday
\* sample, in the order in which the dates first have one upstream
ThreeDistinctDatesInOrder ==
  /\ Len(forecast_out) <= 3
  /\ \A a, b \in DOMAIN forecast_out :
       a < b =>
         /\ forecast_out[a].date # forecast_out[b].date
         /\ First(MiddaysOf(forecast_out[a].date)) < First(MiddaysOf(forecast_out[b].date))
  /\ \A a \in DOMAIN forecast_out : MiddaysOf(forecast_out[a].date) # {}

\* C10 as claimed: get_forecast returns at most 3 entries, of distinct dates,
\* in the upstream order of the dates, each taken from the first midday
\* sample of its date.
C10_FirstMiddaySampleWins ==
  Done =>
    /\ ThreeDistinctDatesInOrder
    /\ \A a \in DOMAIN forecast_out :
         forecast_out[a].temp =
           forecast_list[First(MiddaysOf(forecast_out[a].date))].temp

\* C10 as amended: get_forecast returns at most 3 entries, of distinct dates,
\* in the upstream order of the dates' first midday samples, each taken from
\* the last midday sample of its date.
C10_LastMiddaySampleWins ==
  Done =>
    /\ ThreeDistinctDatesInOrder
    /\ \A a \in DOMAIN forecast_out :
         forecast_out[a].temp =
           forecast_list[Last(MiddaysOf(forecast_out[a].date))].temp

\* three dates were returned, one of them with two midday samples upstream
C10_Witness ==
  /\ Done
  /\ Len(forecast_out) = 3
  /\ \E a \in DOMAIN forecast_out :
       /\ Cardinality(MiddaysOf(forecast_out[a].date)) = 2
       /\ forecast_out[a].temp = Last(MiddaysOf(forecast_out[a].date))

IsButton(data) == update.kind = "callback_query" /\ update.text = data

Edits == {k \in DOMAIN outbox : outbox[k].op = "edit_text"}

\* C11 as claimed: only the rate-refresh button (currency_rates) edits the
\* message the button is attached to; every other command and button only
\* sends new messages.
C11_OnlyRateRefreshEdits ==
  (Done /\ Edits # {}) => IsButton(cb_currency_rates)

\* C11 as amended: the buttons currency_rates, weather_all, forecast_all and
\* list_cities edit the message the button is attached to, each once and as
\* the first thing the handler does (weather_all and forecast_all then send
\* their per-city replies as new messages); every command and every other
\* button (weather_<name>, forecast_<name>, currency, conv_eur_uah,
\* conv_uah_eur) only sends new messages.
C11_FourButtonsEdit ==
  Done =>
    /\ Edits # {} =>
         /\ \/ IsButton(cb_currency_rates)
            \/ IsButton(cb_weather_all)
            \/ IsButton(cb_forecast_all)
            \/ IsButton(cb_list_cities)
         /\ Edits = {1}
    /\ (IsButton(cb_weather_all) \/ IsButton(cb_forecast_all) \/ IsButton(cb_list_cities))
         => Edits = {1}
    /\ (IsButton(cb_currency_rates) /\ ~crashed) => Edits = {1}

\* button weather_all edited the message to the progress notice and then
\* sent one new message per city
C11_Witness ==
  /\ Done
  /\ IsButton(cb_weather_all)
  /\ Len(outbox) = Len(CITIES) + 1
  /\ outbox[1].op = "edit_text"
  /\ outbox[1].kind = "loading_weather"
  /\ \A k \in 2..Len(outbox) : outbox[k].op = "answer"

\* the handler of chat c has its rate table
HasRates(c) == chat[c].pc = "reply" \/ (chat[c].pc = "done" /\ chat[c].rates # "none")

====
